---- MODULE Spec2Model ----
(***************************************************************************)
(* Model of custom_components/toyota/climate.py: the ToyotaClimate entity. *)
(*                                                                         *)
(* Every coroutine of the entity is cut at its await points: one action    *)
(* runs the code from one await to the next, so that the interleavings the *)
(* asyncio event loop allows between user commands, polls and the debounce *)
(* timer callback are behaviours of the model.  A remote call is issued in *)
(* the step that reaches the await and answered, with any outcome, in the  *)
(* step that resumes the coroutine.                                        *)
(***************************************************************************)
EXTENDS Integers, Sequences, FiniteSets

VARIABLES
    hvac_mode,               \* _attr_hvac_mode
    target_temperature,      \* _attr_target_temperature
    current_temperature,     \* _attr_current_temperature (None or a reading)
    climate_status,          \* _attr_climate_status ("climate_active")
    front_defrost,           \* _attr_front_defrost (None: attribute never set)
    rear_defrost,            \* _attr_rear_defrost  (None: attribute never set)
    defrost_op,              \* vehicle.climate_settings.operations holds a defrost operation
    pending_settings_cancel, \* _pending_settings_cancel (None or the handle of a timer)
    settings_changed,        \* _settings_changed
    timers,                  \* the async_call_later timers that are scheduled and live
    delayed_awaiting,        \* _delayed_send_climate_settings coroutines awaiting the send
    turn_on_sending,         \* _turn_on_climate coroutines awaiting the settings send
    turn_on_starting,        \* _turn_on_climate coroutines awaiting engine-start
    turn_off_awaiting,       \* _turn_off_climate coroutines awaiting engine-stop
    update_pc,               \* async_update: "idle", "refresh" or "status"
    removed,                 \* the host holds no entity: async_will_remove_from_hass has run, or __init__ raised
    written,                 \* the state last published by async_write_ha_state
    escaped,                 \* an exception left an entry point
    issued,                  \* the remote call the last step issued (None: it issued none)
    ev,                      \* the last step: the code that ran and the outcome it saw
    last_command,            \* the last climate control command sent to the vehicle
    active_seen,             \* the mode is HEAT_COOL and a poll has seen the climate active since it last became so
    stop_after_start,        \* an engine-stop was sent after an engine-start that is still unanswered
    burst                    \* entity state at the last debounce request still waiting for its timer

vars == <<hvac_mode, target_temperature, current_temperature, climate_status,
          front_defrost, rear_defrost, defrost_op, pending_settings_cancel,
          settings_changed, timers, delayed_awaiting, turn_on_sending,
          turn_on_starting, turn_off_awaiting, update_pc, removed, written, escaped,
          issued, ev, last_command, active_seen, stop_after_start, burst>>

entity == <<hvac_mode, target_temperature, current_temperature, climate_status,
            front_defrost, rear_defrost, pending_settings_cancel, settings_changed,
            timers>>

(***************************************************************************)
(* Bounds and values.                                                      *)
(***************************************************************************)
\* The number of temperatures a user can set.
NTemps == 2
\* The coroutines that may be suspended at an await at once (the poll aside).
MaxInFlight == 2
\* The number of timer handles async_call_later can hand out.
MaxTimers == 2

DefaultTargetTemperature == 21

Temps == DefaultTargetTemperature .. (DefaultTargetTemperature + NTemps - 1)
TimerIds == 1 .. MaxTimers
\* The temperatures get_climate_status reports: async_update only copies one.
Readings == {DefaultTargetTemperature - 1}

None == <<>>
Some(x) == <<x>>

OFF == "off"
HEAT_COOL == "heat_cool"
hvac_modes == {OFF, HEAT_COOL}

preset_modes == {"none", "front_defrost", "rear_defrost", "both_defrost"}

\* What update_climate_settings / send_climate_control_command can answer:
\* a falsy value, an object whose status is 0, an object whose status is 1,
\* an object with no status attribute.  "raise" is the call raising.
Statuses == {"None", "status=0", "status=1", "no status attribute"}
Outcomes == Statuses \cup {"raise"}

Truthy(status) == status # "None"
HasStatusAttr(status) == status \in {"status=0", "status=1"}
StatusField(status) == IF status = "status=0" THEN 0 ELSE 1

\* A failure test that only looks at the truth value of the answer.
Failed_StatusZeroAccepted(status) == ~Truthy(status)
\* `not status or (hasattr(status, "status") and status.status == 0)`
Failed(status) ==
    ~Truthy(status) \/ (HasStatusAttr(status) /\ StatusField(status) = 0)

\* The same with _send_climate_settings left without its try/except.
TryExcept_SendUnguarded ==
    {"async_set_preset_mode", "async_update", "async_set_temperature",
     "_turn_on_climate", "_turn_off_climate"}
\* The functions whose whole body is `try: ... except Exception: log`.
TryExcept ==
    {"async_set_preset_mode", "async_update", "_send_climate_settings",
     "async_set_temperature", "_turn_on_climate", "_turn_off_climate"}

\* An exception raised under the call stack `stack` (innermost first) leaves
\* the entry point when no function of the stack catches it.
Escapes(stack) == \A i \in 1 .. Len(stack) : stack[i] \notin TryExcept

(***************************************************************************)
(* Properties of the entity.                                               *)
(***************************************************************************)
climate_settings_on == hvac_mode = HEAT_COOL

\* A preset_mode that names the single-flag presets the wrong way round.
Preset_RearFirst(f, r) ==
    IF f = None \/ r = None THEN "AttributeError"
    ELSE IF f[1] /\ r[1] THEN "both_defrost"
    ELSE IF r[1] THEN "front_defrost"
    ELSE IF f[1] THEN "rear_defrost"
    ELSE "none"
\* preset_mode, as a function of the two attributes; reading an attribute
\* that was never set raises AttributeError.
Preset(f, r) ==
    IF f = None THEN "AttributeError"
    ELSE IF f[1] /\ r = None THEN "AttributeError"
    ELSE IF f[1] /\ r[1] THEN "both_defrost"
    ELSE IF f[1] THEN "front_defrost"
    ELSE IF r = None THEN "AttributeError"
    ELSE IF r[1] THEN "rear_defrost"
    ELSE "none"

preset_mode == Preset(front_defrost, rear_defrost)

\* async_set_preset_mode's mapping of a preset name to <<front, rear>>.
PresetFlags(p) ==
    IF p = "both_defrost" THEN <<TRUE, TRUE>>
    ELSE IF p = "front_defrost" THEN <<TRUE, FALSE>>
    ELSE IF p = "rear_defrost" THEN <<FALSE, TRUE>>
    ELSE <<FALSE, FALSE>>

AttributeError == [error |-> "AttributeError"]

\* A payload builder that announces settingsOn whatever the mode.
CreateClimateSettings_AlwaysOn(m, t, f, r) ==
    IF defrost_op /\ (f = None \/ r = None) THEN AttributeError
    ELSE [settingsOn |-> TRUE,
          temperature |-> t,
          defrost |-> IF defrost_op THEN Some(<<f[1], r[1]>>) ELSE None]

\* _create_climate_settings for the given mode, temperature and attributes:
\* the defrost operation of the vehicle's operations is replaced by one built
\* from the two attributes; with no defrost operation nothing is replaced.
CreateClimateSettings(m, t, f, r) ==
    IF defrost_op /\ (f = None \/ r = None) THEN AttributeError
    ELSE [settingsOn |-> (m = HEAT_COOL),
          temperature |-> t,
          defrost |-> IF defrost_op THEN Some(<<f[1], r[1]>>) ELSE None]

\* The state async_write_ha_state publishes.
StateOf(m, t, f, r) ==
    [hvac_mode |-> m, target_temperature |-> t, preset_mode |-> Preset(f, r)]

\* async_write_ha_state reads preset_mode for the state it publishes: while
\* a defrost attribute is unset it raises AttributeError in its caller.
WriteRaises(f, r) == Preset(f, r) = "AttributeError"

Snapshot(m, t, f, r) ==
    [settingsOn |-> (m = HEAT_COOL), temperature |-> t, front |-> f, rear |-> r]

Call(name, by, payload) == Some([call |-> name, by |-> by, payload |-> payload])
Event(op, res) == [op |-> op, res |-> res]

(***************************************************************************)
(* The debounce timer.                                                     *)
(***************************************************************************)
\* A cancel handle that is dropped without being called.
Cancel_NoOp(ts, h) == ts
\* Calling the cancel handle `h`: the timer it names is no longer live.
Cancel(ts, h) == IF h # None THEN ts \ {h[1]} ELSE ts

\* async_call_later: a timer that is not live yet.
NewTimer(ts) == CHOOSE i \in TimerIds \ ts : \A j \in TimerIds \ ts : i <= j

\* A debounce that schedules its timer without cancelling the one before.
DebounceSend_NoCancel(m, t, f, r) ==
    LET id == NewTimer(timers)
    IN  /\ TimerIds \ timers # {}
        /\ settings_changed' = TRUE
        /\ timers' = timers \cup {id}
        /\ pending_settings_cancel' = Some(id)
        /\ burst' = Some(Snapshot(m, t, f, r))

\* _debounce_send_climate_settings, called with the entity state (m, t, f, r)
\* that the setter has just written.
DebounceSend(m, t, f, r) ==
    LET ts == Cancel(timers, pending_settings_cancel)
        id == NewTimer(ts)
    IN  /\ TimerIds \ ts # {}
        /\ settings_changed' = TRUE
        /\ timers' = ts \cup {id}
        /\ pending_settings_cancel' = Some(id)
        /\ burst' = Some(Snapshot(m, t, f, r))

\* The coroutines suspended at an await of a remote call (the poll aside).
InFlight == turn_on_sending + turn_on_starting + turn_off_awaiting + delayed_awaiting

(***************************************************************************)
(* __init__                                                                *)
(***************************************************************************)
\* The parameters a defrost operation may hold: each of frontDefrost and
\* rearDefrost is absent (None) or present with its `enabled` value.
DefrostParams ==
    [frontDefrost : {None, Some(TRUE), Some(FALSE)},
     rearDefrost : {None, Some(TRUE), Some(FALSE)}]

\* vehicle.climate_settings when the entity is constructed: None (not fetched
\* yet), or settings with a target temperature and operations that hold no
\* defrost operation (None) or one.
VehicleSettings ==
    {None} \cup
    {Some([target_temperature |-> t, defrost |-> d]) :
        t \in Temps, d \in {None} \cup {Some(ps) : ps \in DefrostParams}}

\* Settings with a defrost operation that has both of its parameters.
WellFormedSettings ==
    {cs \in VehicleSettings :
        /\ cs # None
        /\ cs[1].defrost # None
        /\ cs[1].defrost[1].frontDefrost # None
        /\ cs[1].defrost[1].rearDefrost # None}

\* __init__ with vehicle.climate_settings = cs.  The getattr calls fall back
\* to their defaults when cs is None, but `climate_settings.operations` then
\* raises AttributeError and no entity comes to exist; the defrost attributes
\* are assigned only from the parameters the defrost operation holds.
Construct(cs) ==
    LET op == IF cs = None THEN None ELSE cs[1].defrost
    IN  /\ hvac_mode = OFF
        /\ target_temperature = IF cs = None THEN DefaultTargetTemperature
                                ELSE cs[1].target_temperature
        /\ current_temperature = None
        /\ climate_status = FALSE
        /\ defrost_op = (op # None)
        /\ front_defrost = IF op = None THEN None ELSE op[1].frontDefrost
        /\ rear_defrost = IF op = None THEN None ELSE op[1].rearDefrost
        /\ pending_settings_cancel = None
        /\ settings_changed = FALSE
        /\ timers = {}
        /\ delayed_awaiting = 0
        /\ turn_on_sending = 0
        /\ turn_on_starting = 0
        /\ turn_off_awaiting = 0
        /\ update_pc = "idle"
        /\ removed = (cs = None)
        /\ written = IF WriteRaises(front_defrost, rear_defrost) THEN AttributeError
                     ELSE StateOf(hvac_mode, target_temperature,
                                  front_defrost, rear_defrost)
        /\ escaped = (cs = None)
        /\ issued = None
        /\ ev = Event("__init__", IF cs = None THEN "AttributeError" ELSE "")
        /\ last_command = "none"
        /\ active_seen = FALSE
        /\ stop_after_start = FALSE
        /\ burst = None

\* The entity of a vehicle whose climate settings hold a defrost operation
\* with its frontDefrost and rearDefrost parameters.
Init == \E cs \in WellFormedSettings : Construct(cs)

\* The entity of any vehicle.
InitAnyVehicle == \E cs \in VehicleSettings : Construct(cs)

(***************************************************************************)
(* async_set_temperature, async_set_preset_mode                            *)
(***************************************************************************)
\* async_set_temperature(temperature=t)
SetTemperature(t) ==
    /\ ~removed
    /\ target_temperature' = t
    /\ IF WriteRaises(front_defrost, rear_defrost)
       THEN /\ escaped' = (escaped \/ Escapes(<<"async_set_temperature">>))
            /\ ev' = Event("async_set_temperature", "AttributeError")
            /\ UNCHANGED <<written, pending_settings_cancel, settings_changed,
                           timers, burst>>
       ELSE /\ written' = StateOf(hvac_mode, t, front_defrost, rear_defrost)
            /\ DebounceSend(hvac_mode, t, front_defrost, rear_defrost)
            /\ ev' = Event("async_set_temperature",
                            IF pending_settings_cancel # None
                            THEN "value, timer replaced"
                            ELSE "value")
            /\ UNCHANGED escaped
    /\ issued' = None
    /\ UNCHANGED <<active_seen, last_command, hvac_mode, current_temperature, climate_status, front_defrost,
                   rear_defrost, defrost_op, delayed_awaiting, turn_on_sending,
                   turn_on_starting, turn_off_awaiting, update_pc, removed, stop_after_start>>

\* async_set_temperature() without a temperature: returns at once.
SetTemperatureNone ==
    /\ ~removed
    /\ issued' = None
    /\ ev' = Event("async_set_temperature", "None")
    /\ UNCHANGED <<active_seen, last_command, entity, defrost_op, delayed_awaiting, turn_on_sending,
                   turn_on_starting, turn_off_awaiting, update_pc, removed, stop_after_start,
                   written, escaped, burst>>

\* async_set_preset_mode(p)
SetPreset(p) ==
    LET f == Some(PresetFlags(p)[1])
        r == Some(PresetFlags(p)[2])
    IN  /\ ~removed
        /\ front_defrost' = f
        /\ rear_defrost' = r
        /\ written' = StateOf(hvac_mode, target_temperature, f, r)
        /\ DebounceSend(hvac_mode, target_temperature, f, r)
        /\ issued' = None
        /\ ev' = Event("async_set_preset_mode", p)
        /\ UNCHANGED <<active_seen, last_command, hvac_mode, target_temperature, current_temperature,
                       climate_status, defrost_op, delayed_awaiting, turn_on_sending,
                       turn_on_starting, turn_off_awaiting, update_pc, removed, stop_after_start,
                       escaped>>

(***************************************************************************)
(* _delayed_send_climate_settings: the timer callback                      *)
(***************************************************************************)
\* The timer id fires: the callback runs up to its await of the send.
TimerFires(id) ==
    LET settings == CreateClimateSettings(hvac_mode, target_temperature,
                                          front_defrost, rear_defrost)
        stack == <<"_send_climate_settings", "_delayed_send_climate_settings">>
    IN  /\ id \in timers
        /\ InFlight < MaxInFlight
        /\ timers' = timers \ {id}
        /\ pending_settings_cancel' = None
        /\ burst' = None
        /\ IF ~settings_changed
           THEN /\ issued' = None
                /\ ev' = Event("_delayed_send_climate_settings", "not changed")
                /\ UNCHANGED <<settings_changed, delayed_awaiting, escaped>>
           ELSE IF settings = AttributeError
           THEN /\ issued' = None
                /\ ev' = Event("_delayed_send_climate_settings", "AttributeError")
                /\ settings_changed' = (settings_changed /\ Escapes(stack))
                /\ escaped' = (escaped \/ Escapes(stack))
                /\ UNCHANGED delayed_awaiting
           ELSE /\ issued' = Call("update_climate_settings", "debounce", settings)
                /\ ev' = Event("_delayed_send_climate_settings", "sending")
                /\ delayed_awaiting' = delayed_awaiting + 1
                /\ UNCHANGED <<settings_changed, escaped>>
        /\ UNCHANGED <<active_seen, last_command, hvac_mode, target_temperature, current_temperature,
                       climate_status, front_defrost, rear_defrost, defrost_op,
                       turn_on_sending, turn_on_starting, turn_off_awaiting,
                       update_pc, removed, stop_after_start, written>>

\* A callback that puts the target temperature back to its default when the
\* send has failed.
DelayedSendReturns_RollsBack(outcome) ==
    LET stack == <<"_send_climate_settings", "_delayed_send_climate_settings">>
        leaves == outcome = "raise" /\ Escapes(stack)
    IN  /\ delayed_awaiting > 0
        /\ delayed_awaiting' = delayed_awaiting - 1
        /\ settings_changed' = (settings_changed /\ leaves)
        /\ escaped' = (escaped \/ leaves)
        /\ issued' = None
        /\ ev' = Event("_delayed_send_climate_settings resumed", outcome)
        /\ target_temperature' = IF outcome = "raise" \/ Failed(outcome)
                                 THEN DefaultTargetTemperature
                                 ELSE target_temperature
        /\ UNCHANGED <<active_seen, last_command, hvac_mode, current_temperature,
                       climate_status, front_defrost, rear_defrost, defrost_op,
                       pending_settings_cancel, timers, turn_on_sending,
                       turn_on_starting, turn_off_awaiting, update_pc, removed, stop_after_start,
                       written, burst>>

\* update_climate_settings answers a callback: _send_climate_settings returns
\* and the callback clears the dirty flag.
DelayedSendReturns(outcome) ==
    LET stack == <<"_send_climate_settings", "_delayed_send_climate_settings">>
        leaves == outcome = "raise" /\ Escapes(stack)
    IN  /\ delayed_awaiting > 0
        /\ delayed_awaiting' = delayed_awaiting - 1
        /\ settings_changed' = (settings_changed /\ leaves)
        /\ escaped' = (escaped \/ leaves)
        /\ issued' = None
        /\ ev' = Event("_delayed_send_climate_settings resumed", outcome)
        /\ UNCHANGED <<active_seen, last_command, hvac_mode, target_temperature, current_temperature,
                       climate_status, front_defrost, rear_defrost, defrost_op,
                       pending_settings_cancel, timers, turn_on_sending,
                       turn_on_starting, turn_off_awaiting, update_pc, removed, stop_after_start,
                       written, burst>>

(***************************************************************************)
(* _turn_on_climate (async_turn_on, async_set_hvac_mode(HEAT_COOL))        *)
(***************************************************************************)
TurnOnBegin(entry) ==
    LET settings == CreateClimateSettings(HEAT_COOL, target_temperature,
                                          front_defrost, rear_defrost)
    IN  /\ ~removed
        /\ InFlight < MaxInFlight
        /\ hvac_mode' = HEAT_COOL
        /\ IF WriteRaises(front_defrost, rear_defrost)
           THEN /\ issued' = None
                /\ ev' = Event(entry, "AttributeError")
                /\ escaped' = (escaped \/ Escapes(<<"_turn_on_climate">>))
                /\ UNCHANGED <<written, timers, pending_settings_cancel,
                               settings_changed, burst, turn_on_sending>>
           ELSE /\ written' = StateOf(HEAT_COOL, target_temperature,
                                      front_defrost, rear_defrost)
                /\ timers' = Cancel(timers, pending_settings_cancel)
                /\ pending_settings_cancel' = None
                /\ settings_changed' = FALSE
                /\ burst' = None
                /\ issued' = Call("update_climate_settings", "turn_on", settings)
                /\ ev' = Event(entry, IF pending_settings_cancel # None
                                       THEN "sending, timer cancelled"
                                       ELSE "sending")
                /\ turn_on_sending' = turn_on_sending + 1
                /\ UNCHANGED escaped
        /\ active_seen' = (active_seen /\ hvac_mode = HEAT_COOL)
        /\ UNCHANGED <<last_command, target_temperature, current_temperature, climate_status,
                       front_defrost, rear_defrost, defrost_op, delayed_awaiting,
                       turn_on_starting, turn_off_awaiting, update_pc, removed, stop_after_start>>

\* A turn-on that sends engine-start whatever the settings send returned.
TurnOnSettingsReturn_AlwaysStarts(outcome) ==
    /\ turn_on_sending > 0
    /\ turn_on_sending' = turn_on_sending - 1
    /\ escaped' = (escaped \/ (outcome = "raise"
                               /\ Escapes(<<"_send_climate_settings",
                                            "_turn_on_climate">>)))
    /\ issued' = Call("send_climate_control_command", "turn_on",
                      [command |-> "engine-start"])
    /\ turn_on_starting' = turn_on_starting + 1
    /\ last_command' = "engine-start"
    /\ ev' = Event("_turn_on_climate settings returned", outcome)
    /\ UNCHANGED <<entity, defrost_op, delayed_awaiting, turn_off_awaiting,
                   update_pc, removed, stop_after_start, written, active_seen, burst>>

\* update_climate_settings answers a turn-on: _send_climate_settings returns,
\* and on True the engine-start command is sent.
TurnOnSettingsReturn(outcome) ==
    LET sent == outcome # "raise" /\ ~Failed(outcome)
    IN  /\ turn_on_sending > 0
        /\ turn_on_sending' = turn_on_sending - 1
        /\ escaped' = (escaped \/ (outcome = "raise"
                                   /\ Escapes(<<"_send_climate_settings",
                                                "_turn_on_climate">>)))
        /\ IF sent
           THEN /\ issued' = Call("send_climate_control_command", "turn_on",
                                  [command |-> "engine-start"])
                /\ turn_on_starting' = turn_on_starting + 1
                /\ last_command' = "engine-start"
           ELSE /\ issued' = None
                /\ UNCHANGED <<turn_on_starting, last_command>>
        /\ ev' = Event("_turn_on_climate settings returned", outcome)
        /\ UNCHANGED <<entity, defrost_op, delayed_awaiting, turn_off_awaiting,
                       update_pc, removed, stop_after_start, written, active_seen, burst>>

\* The engine-start command answers.
TurnOnStartReturn(outcome) ==
    /\ turn_on_starting > 0
    /\ turn_on_starting' = turn_on_starting - 1
    /\ escaped' = (escaped \/ (outcome = "raise" /\ Escapes(<<"_turn_on_climate">>)))
    /\ IF outcome # "raise" /\ Failed(outcome)
       THEN /\ hvac_mode' = OFF
            /\ active_seen' = FALSE
            /\ written' = StateOf(OFF, target_temperature, front_defrost, rear_defrost)
       ELSE UNCHANGED <<hvac_mode, active_seen, written>>
    /\ issued' = None
    /\ ev' = Event("_turn_on_climate engine-start returned", outcome)
    /\ stop_after_start' = (stop_after_start /\ turn_on_starting' > 0)
    /\ UNCHANGED <<last_command, target_temperature, current_temperature, climate_status,
                   front_defrost, rear_defrost, defrost_op, pending_settings_cancel,
                   settings_changed, timers, delayed_awaiting, turn_on_sending,
                   turn_off_awaiting, update_pc, removed, burst>>

(***************************************************************************)
(* _turn_off_climate (async_turn_off, async_set_hvac_mode(OFF))            *)
(***************************************************************************)
TurnOffBegin(entry) ==
    /\ ~removed
    /\ InFlight < MaxInFlight
    /\ hvac_mode' = OFF
    /\ active_seen' = FALSE
    /\ IF WriteRaises(front_defrost, rear_defrost)
       THEN /\ issued' = None
            /\ ev' = Event(entry, "AttributeError")
            /\ escaped' = (escaped \/ Escapes(<<"_turn_off_climate">>))
            /\ UNCHANGED <<written, turn_off_awaiting, last_command,
                           stop_after_start>>
       ELSE /\ written' = StateOf(OFF, target_temperature, front_defrost, rear_defrost)
            /\ issued' = Call("send_climate_control_command", "turn_off",
                              [command |-> "engine-stop"])
            /\ turn_off_awaiting' = turn_off_awaiting + 1
            /\ last_command' = "engine-stop"
            /\ stop_after_start' = (stop_after_start \/ turn_on_starting > 0)
            /\ ev' = Event(entry, "stopping")
            /\ UNCHANGED escaped
    /\ UNCHANGED <<target_temperature, current_temperature, climate_status,
                   front_defrost, rear_defrost, defrost_op, pending_settings_cancel,
                   settings_changed, timers, delayed_awaiting, turn_on_sending,
                   turn_on_starting, update_pc, removed, burst>>

\* A turn-off that, like the turn-on, puts the mode back when its command fails.
TurnOffReturn_RollsBack(outcome) ==
    /\ turn_off_awaiting > 0
    /\ turn_off_awaiting' = turn_off_awaiting - 1
    /\ escaped' = (escaped \/ (outcome = "raise" /\ Escapes(<<"_turn_off_climate">>)))
    /\ hvac_mode' = IF outcome = "raise" \/ Failed(outcome) THEN HEAT_COOL ELSE hvac_mode
    /\ written' = StateOf(hvac_mode', target_temperature, front_defrost, rear_defrost)
    /\ issued' = None
    /\ ev' = Event("_turn_off_climate engine-stop returned", outcome)
    /\ UNCHANGED <<active_seen, last_command, target_temperature, current_temperature,
                   climate_status, front_defrost, rear_defrost,
                   pending_settings_cancel, settings_changed, timers, defrost_op,
                   delayed_awaiting, turn_on_sending, turn_on_starting, update_pc,
                   removed, stop_after_start, burst>>

\* The engine-stop command answers: logged, whatever the answer.
TurnOffReturn(outcome) ==
    /\ turn_off_awaiting > 0
    /\ turn_off_awaiting' = turn_off_awaiting - 1
    /\ escaped' = (escaped \/ (outcome = "raise" /\ Escapes(<<"_turn_off_climate">>)))
    /\ issued' = None
    /\ ev' = Event("_turn_off_climate engine-stop returned", outcome)
    /\ UNCHANGED <<active_seen, last_command, entity, defrost_op, delayed_awaiting, turn_on_sending,
                   turn_on_starting, update_pc, removed, stop_after_start, written, burst>>

(***************************************************************************)
(* async_update: the poll                                                  *)
(***************************************************************************)
\* What get_climate_status can answer: active with a temperature, active
\* without one, inactive; or the call (or reading its payload) raises.
Raised == [raised |-> TRUE]
Responses ==
    {[status |-> TRUE, current_temperature |-> Some(t)] : t \in Readings}
    \cup {[status |-> TRUE, current_temperature |-> None],
          [status |-> FALSE, current_temperature |-> None],
          Raised}

\* The answer and the cached flag the handler read, for the record of the step.
ResponseName(resp) ==
    IF resp = Raised THEN "raise"
    ELSE IF ~resp.status
    THEN (IF climate_status THEN "inactive, was active" ELSE "inactive, was inactive")
    ELSE IF resp.current_temperature = None THEN "active, no temperature"
    ELSE "active"

\* A poll without the branch that turns the device off.
NowOff_Never(resp) == FALSE
\* A poll that turns the device off on every inactive answer.
NowOff_Always(resp) == ~resp.status
\* `elif self._attr_climate_status:` after `if climate_status.status:` failed.
NowOff(resp) == ~resp.status /\ climate_status

\* A poll without the early return.
UpdateSkips_Never == FALSE
\* `if not self.climate_settings_on: return`
UpdateSkips == ~climate_settings_on

\* The host runs one async_update of an entity at a time.
UpdateBegin ==
    /\ ~removed
    /\ update_pc = "idle"
    /\ IF UpdateSkips
       THEN /\ issued' = None
            /\ ev' = Event("async_update", "skipped")
            /\ UNCHANGED update_pc
       ELSE /\ issued' = Call("refresh_climate_status", "update", [vin |-> "vin"])
            /\ ev' = Event("async_update", "refreshing")
            /\ update_pc' = "refresh"
    /\ UNCHANGED <<active_seen, last_command, entity, defrost_op, delayed_awaiting, turn_on_sending,
                   turn_on_starting, turn_off_awaiting, removed, stop_after_start, written, escaped,
                   burst>>

\* refresh_climate_status answers True, False, or raises.
UpdateRefreshReturn(outcome) ==
    /\ update_pc = "refresh"
    /\ IF outcome = "True"
       THEN /\ issued' = Call("get_climate_status", "update", [vin |-> "vin"])
            /\ update_pc' = "status"
       ELSE /\ issued' = None
            /\ update_pc' = "idle"
    /\ escaped' = (escaped \/ (outcome = "raise" /\ Escapes(<<"async_update">>)))
    /\ ev' = Event("async_update refresh returned", outcome)
    /\ UNCHANGED <<active_seen, last_command, entity, defrost_op, delayed_awaiting, turn_on_sending,
                   turn_on_starting, turn_off_awaiting, removed, stop_after_start, written, burst>>

\* get_climate_status answers.
UpdateStatusReturn(resp) ==
    /\ update_pc = "status"
    /\ update_pc' = "idle"
    /\ IF resp = Raised
       THEN /\ escaped' = (escaped \/ Escapes(<<"async_update">>))
            /\ UNCHANGED <<hvac_mode, current_temperature, climate_status, written>>
       ELSE IF resp.status /\ resp.current_temperature = None
       THEN /\ climate_status' = TRUE
            /\ escaped' = (escaped \/ Escapes(<<"async_update">>))
            /\ UNCHANGED <<hvac_mode, current_temperature, written>>
       ELSE /\ IF resp.status
               THEN /\ climate_status' = TRUE
                    /\ current_temperature' = resp.current_temperature
                    /\ UNCHANGED hvac_mode
               ELSE IF NowOff(resp)
               THEN /\ hvac_mode' = OFF
                    /\ current_temperature' = None
                    /\ climate_status' = FALSE
               ELSE UNCHANGED <<hvac_mode, current_temperature, climate_status>>
            /\ IF WriteRaises(front_defrost, rear_defrost)
               THEN /\ escaped' = (escaped \/ Escapes(<<"async_update">>))
                    /\ UNCHANGED written
               ELSE /\ written' = StateOf(hvac_mode', target_temperature,
                                          front_defrost, rear_defrost)
                    /\ UNCHANGED escaped
    /\ issued' = None
    /\ ev' = Event("async_update status returned", ResponseName(resp))
    /\ active_seen' = (/\ hvac_mode' = HEAT_COOL
                       /\ active_seen \/ (resp # Raised /\ resp.status))
    /\ UNCHANGED <<last_command, target_temperature, front_defrost, rear_defrost, defrost_op,
                   pending_settings_cancel, settings_changed, timers,
                   delayed_awaiting, turn_on_sending, turn_on_starting,
                   turn_off_awaiting, removed, stop_after_start, burst>>

(***************************************************************************)
(* async_will_remove_from_hass                                             *)
(***************************************************************************)
WillRemove ==
    /\ ~removed
    /\ removed' = TRUE
    /\ timers' = Cancel(timers, pending_settings_cancel)
    /\ pending_settings_cancel' = None
    /\ burst' = None
    /\ issued' = None
    /\ ev' = Event("async_will_remove_from_hass", "")
    /\ UNCHANGED <<active_seen, last_command, hvac_mode, target_temperature, current_temperature,
                   climate_status, front_defrost, rear_defrost, defrost_op,
                   settings_changed, delayed_awaiting, turn_on_sending,
                   turn_on_starting, turn_off_awaiting, update_pc, written, escaped,
                   stop_after_start>>

(***************************************************************************)
(* The entity under the event loop.                                        *)
(***************************************************************************)
Next ==
    \/ \E t \in Temps : SetTemperature(t)
    \/ SetTemperatureNone
    \/ \E p \in preset_modes : SetPreset(p)
    \/ \E id \in TimerIds : TimerFires(id)
    \/ \E o \in Outcomes : DelayedSendReturns(o)
    \/ \E e \in {"async_turn_on", "async_set_hvac_mode"} : TurnOnBegin(e)
    \/ \E o \in Outcomes : TurnOnSettingsReturn(o)
    \/ \E o \in Outcomes : TurnOnStartReturn(o)
    \/ \E e \in {"async_turn_off", "async_set_hvac_mode"} : TurnOffBegin(e)
    \/ \E o \in Outcomes : TurnOffReturn(o)
    \/ UpdateBegin
    \/ \E o \in {"True", "False", "raise"} : UpdateRefreshReturn(o)
    \/ \E resp \in Responses : UpdateStatusReturn(resp)
    \/ WillRemove

Spec == Init /\ [][Next]_vars

\* The entity of any vehicle, well-formed or not.
SpecAnyVehicle == InitAnyVehicle /\ [][Next]_vars

(***************************************************************************)
(* Properties.                                                             *)
(***************************************************************************)
IsCall(c, name, by) == c # None /\ c[1].call = name /\ c[1].by = by

\* The settings payload that carries the entity state `snap`.
PayloadOfState(snap) ==
    [settingsOn |-> snap.settingsOn,
     temperature |-> snap.temperature,
     defrost |-> IF snap.front # None /\ snap.rear # None
                 THEN Some(<<snap.front[1], snap.rear[1]>>)
                 ELSE None]

TimerFired == ev.op = "_delayed_send_climate_settings"
SettingsReturned == ev.op = "_turn_on_climate settings returned"
EngineStartReturned == ev.op = "_turn_on_climate engine-start returned"
EngineStopReturned == ev.op = "_turn_off_climate engine-stop returned"
StatusReturned == ev.op = "async_update status returned"

\* C1: when the timer of a burst of debounce requests fires (every request of
\* the burst having come before the timer of the previous one fired), that
\* step issues the burst's one update_climate_settings call, and its payload
\* (settingsOn, temperature, front/rear defrost) is the entity state as it
\* was at the last request of the burst.
C1_BurstSendsOnceWithLastState ==
    [][(TimerFired' /\ burst # None)
         => issued' = Call("update_climate_settings", "debounce",
                           PayloadOfState(burst[1]))]_vars

\* C2: once the entity is removed no debounce timer is live, so the callback
\* of a send that was scheduled at removal never runs and no debounced
\* update_climate_settings call is issued.
C2_RemovalCancelsPendingSend ==
    removed => /\ timers = {}
               /\ pending_settings_cancel = None
               /\ ~IsCall(issued, "update_climate_settings", "debounce")

\* C2 witness: the entity was removed while a debounced send was scheduled
\* (the dirty flag is set and no callback is awaiting a send).
C2_Witness ==
    /\ ev.op = "async_will_remove_from_hass"
    /\ settings_changed
    /\ delayed_awaiting = 0
    /\ timers = {}

\* C3: when the engine-start command of a turn-on answers with a falsy result
\* or with status 0, the turn-on completes with mode OFF, and OFF is the
\* published state.
C3_EngineStartFailureRollsBack ==
    (EngineStartReturned /\ ev.res \in {"None", "status=0"})
        => hvac_mode = OFF /\ written.hvac_mode = OFF

C3_Witness ==
    /\ EngineStartReturned
    /\ ev.res = "status=0"
    /\ hvac_mode = OFF
    /\ written.hvac_mode = OFF

\* C4: when the settings send of a turn-on fails (update_climate_settings
\* answers falsy, answers status 0, or raises), the turn-on completes with
\* mode OFF, and OFF is the published state.
C4_SettingsFailureRollsBack ==
    (SettingsReturned /\ ev.res \in {"None", "status=0", "raise"})
        => hvac_mode = OFF /\ written.hvac_mode = OFF

\* C5: when the engine-start command of a turn-on answers success (a truthy
\* result whose status is not 0; the settings send succeeded before it), the
\* turn-on completes with mode HEAT_COOL.  Stated for the turn-ons whose
\* engine-start is the last command the vehicle was sent, where no later
\* engine-stop accounts for a mode of OFF.
C5_TurnOnSuccessKeepsHeatCool ==
    (/\ EngineStartReturned
     /\ ev.res \in {"status=1", "no status attribute"}
     /\ last_command = "engine-start")
        => hvac_mode = HEAT_COOL

\* C6: when the poll fetches an inactive climate status while climate_active
\* is true, then after the poll mode is OFF, current_temperature is None and
\* climate_active is false.
C6_PollShutsDown ==
    (StatusReturned /\ ev.res = "inactive, was active")
        => /\ hvac_mode = OFF
           /\ current_temperature = None
           /\ ~climate_status
           /\ written.hvac_mode = OFF

C6_Witness ==
    /\ StatusReturned
    /\ ev.res = "inactive, was active"
    /\ hvac_mode = OFF
    /\ current_temperature = None
    /\ ~climate_status

\* C7: a poll that finds mode OFF issues no remote call and leaves mode, the
\* temperatures, the defrost flags, climate_active and the debouncer (handle,
\* dirty flag, live timers) as they were; the handler has returned.
C7_PollWhenOffIsNoOp ==
    [][(ev'.op = "async_update" /\ hvac_mode = OFF)
         => /\ issued' = None
            /\ update_pc' = "idle"
            /\ UNCHANGED <<entity, written>>]_vars

C7_Witness ==
    /\ ev = Event("async_update", "skipped")
    /\ hvac_mode = OFF
    /\ issued = None
    /\ update_pc = "idle"

\* The table of the presets: none=(F,F), front_defrost=(T,F),
\* rear_defrost=(F,T), both_defrost=(T,T).
PresetTable ==
    [none |-> <<FALSE, FALSE>>, front_defrost |-> <<TRUE, FALSE>>,
     rear_defrost |-> <<FALSE, TRUE>>, both_defrost |-> <<TRUE, TRUE>>]

\* C8: right after set_preset(p), for each of the four preset names, preset
\* reads p; and whenever the two defrost flags are set, preset is the name
\* the table gives for (front_defrost, rear_defrost).
C8_PresetRoundTrip ==
    /\ ev.op = "async_set_preset_mode" => preset_mode = ev.res
    /\ (front_defrost # None /\ rear_defrost # None)
         => /\ preset_mode \in preset_modes
            /\ PresetTable[preset_mode] = <<front_defrost[1], rear_defrost[1]>>

C8_Witness ==
    /\ ev = Event("async_set_preset_mode", "rear_defrost")
    /\ preset_mode = "rear_defrost"
    /\ front_defrost = Some(FALSE)
    /\ rear_defrost = Some(TRUE)

C10_NoErrorPropagates == ~escaped

\* C10 witness: the send of the timer callback raised, and the callback
\* returned normally.
C10_Witness ==
    /\ ev = Event("_delayed_send_climate_settings resumed", "raise")
    /\ ~escaped
    /\ ~settings_changed

\* C11: at most one debounce timer is live, and the stored cancel handle, when
\* it is not None, names a live timer (a request cancels the timer scheduled
\* before it and stores the handle of the one it schedules).
C11_AtMostOneLiveTimer ==
    /\ Cardinality(timers) <= 1
    /\ pending_settings_cancel # None => pending_settings_cancel[1] \in timers
    /\ timers # {} => pending_settings_cancel # None

\* C11 witness: a request has replaced the timer of the request before it.
C11_Witness ==
    /\ ev = Event("async_set_temperature", "value, timer replaced")
    /\ Cardinality(timers) = 1
    /\ pending_settings_cancel # None
    /\ pending_settings_cancel[1] \in timers

DelayedSendResumed == ev.op = "_delayed_send_climate_settings resumed"

\* A send that did not succeed: the call raised, or answered falsy or status 0.
SendFailed(res) == res = "raise" \/ Failed(res)

\* C12: the step in which a debounced send fails (update_climate_settings
\* raises, answers falsy or answers status 0) leaves target_temperature,
\* front_defrost, rear_defrost and mode as they are: nothing is rolled back.
C12_FailedDebouncedSendKeepsState ==
    [][(DelayedSendResumed' /\ SendFailed(ev'.res))
           => UNCHANGED <<target_temperature, front_defrost, rear_defrost,
                          hvac_mode>>]_vars

\* C12 witness: a debounced send has failed, and the entity still holds a
\* target temperature other than the default.
C12_Witness ==
    /\ DelayedSendResumed
    /\ ev.res = "status=0"
    /\ target_temperature # DefaultTargetTemperature
    /\ ~settings_changed

\* C13: a timer that fires with the dirty flag set issues the one
\* update_climate_settings call, in mode OFF as in mode HEAT_COOL, with
\* settingsOn = (mode = HEAT_COOL) and the target temperature and flags of
\* that moment; when the call is answered the dirty flag is cleared.
C13_DirtyTimerSendsCurrentState ==
    [][/\ (TimerFired' /\ settings_changed)
           => /\ IsCall(issued', "update_climate_settings", "debounce")
              /\ issued'[1].payload.settingsOn = (hvac_mode' = HEAT_COOL)
              /\ issued'[1].payload.temperature = target_temperature'
              /\ issued'[1].payload.defrost
                     = Some(<<front_defrost'[1], rear_defrost'[1]>>)
              /\ delayed_awaiting' = delayed_awaiting + 1
       /\ DelayedSendResumed' => ~settings_changed']_vars

\* C13 witness: a timer has fired in mode OFF with the dirty flag set and its
\* call announces settingsOn = false.
C13_Witness ==
    /\ TimerFired
    /\ hvac_mode = OFF
    /\ settings_changed
    /\ IsCall(issued, "update_climate_settings", "debounce")
    /\ issued[1].payload.settingsOn = FALSE

TurnOnBegun ==
    /\ ev.op \in {"async_turn_on", "async_set_hvac_mode"}
    /\ ev.res \in {"sending", "sending, timer cancelled"}

TurnOffBegun ==
    /\ ev.op \in {"async_turn_off", "async_set_hvac_mode"}
    /\ ev.res = "stopping"

IsEngineStart(c) ==
    /\ IsCall(c, "send_climate_control_command", "turn_on")
    /\ c[1].payload.command = "engine-start"

\* C14: engine-start is issued only by the step in which a turn-on's
\* update_climate_settings call is answered with success, and that turn-on
\* moves on to await it (so it issues no second one); a turn-on whose
\* settings send failed issues nothing.
C14_EngineStartOnlyAfterSettingsSuccess ==
    [][/\ IsEngineStart(issued')
           => /\ SettingsReturned'
              /\ ev'.res \in {"status=1", "no status attribute"}
              /\ turn_on_sending' = turn_on_sending - 1
              /\ turn_on_starting' = turn_on_starting + 1
       /\ (SettingsReturned' /\ ev'.res \in {"raise", "None", "status=0"})
           => /\ issued' = None
              /\ turn_on_starting' = turn_on_starting]_vars

\* C14 witness: the settings send of a turn-on has succeeded and engine-start
\* is on its way.
C14_Witness ==
    /\ SettingsReturned
    /\ ev.res = "status=1"
    /\ IsEngineStart(issued)
    /\ turn_on_starting = 1

\* C15: a turn-on that begins while a debounce timer is scheduled leaves no
\* timer live, the handle None and the dirty flag clear, and issues an
\* update_climate_settings call with settingsOn = true and the current target
\* temperature and defrost flags.
C15_TurnOnCancelsPendingSend ==
    [][(TurnOnBegun' /\ timers # {})
           => /\ timers' = {}
              /\ pending_settings_cancel' = None
              /\ ~settings_changed'
              /\ issued' = Call("update_climate_settings", "turn_on",
                                [settingsOn |-> TRUE,
                                 temperature |-> target_temperature',
                                 defrost |-> Some(<<front_defrost'[1],
                                                    rear_defrost'[1]>>)])]_vars

\* C15 witness: a turn-on has cancelled a scheduled send.
C15_Witness ==
    /\ ev = Event("async_turn_on", "sending, timer cancelled")
    /\ timers = {}
    /\ ~settings_changed
    /\ IsCall(issued, "update_climate_settings", "turn_on")

\* C16: a step that takes the mode from HEAT_COOL to OFF is the begin of a
\* turn-off, the answer of a failed engine-start (falsy or status 0), or a
\* status answer "inactive" of a poll while climate_status was true; a poll
\* whose refresh answers False or raises, whose status call raises, or that
\* sees "inactive" with climate_status false changes none of mode,
\* current_temperature and climate_status; the setters and the timer
\* callback never change the mode.
C16_OnlyThreeWaysToOff ==
    [][/\ (hvac_mode = HEAT_COOL /\ hvac_mode' = OFF)
           => \/ TurnOffBegun'
              \/ EngineStartReturned' /\ ev'.res \in {"None", "status=0"}
              \/ /\ StatusReturned'
                 /\ ev'.res = "inactive, was active"
                 /\ climate_status
       /\ (\/ /\ ev'.op = "async_update refresh returned"
              /\ ev'.res \in {"False", "raise"}
           \/ /\ StatusReturned'
              /\ ev'.res \in {"raise", "inactive, was inactive"})
           => UNCHANGED <<hvac_mode, current_temperature, climate_status>>
       /\ (\/ ev'.op \in {"async_set_temperature", "async_set_preset_mode"}
           \/ TimerFired'
           \/ DelayedSendResumed')
           => UNCHANGED hvac_mode]_vars

\* C16 witness: a poll has seen "inactive" while climate_status was false,
\* and the mode is still HEAT_COOL.
C16_Witness ==
    /\ StatusReturned
    /\ ev.res = "inactive, was inactive"
    /\ hvac_mode = HEAT_COOL
    /\ ~climate_status

\* C17: __init__ does not raise and leaves a fully defined state, whatever
\* the vehicle's climate settings: mode OFF, a target temperature, and
\* front_defrost, rear_defrost and preset_mode readable.
C17_InitAlwaysDefined ==
    ev.op = "__init__"
        => /\ ev.res # "AttributeError"
           /\ hvac_mode = OFF
           /\ target_temperature \in Temps
           /\ front_defrost # None
           /\ rear_defrost # None
           /\ preset_mode \in preset_modes

\* C19: a poll takes the mode from HEAT_COOL to OFF only when a poll has seen
\* the climate active in the current session, that is since the turn-on that
\* made the mode HEAT_COOL.
C19_PollShutsDownOnlyAfterActiveInSession ==
    [][(StatusReturned' /\ hvac_mode = HEAT_COOL /\ hvac_mode' = OFF)
           => active_seen]_vars

\* C18: the timer of a setting change, when it fires, starts an
\* update_climate_settings call that carries the current target temperature
\* and defrost flags.  (Where it starts none, no timer is live and the dirty
\* flag is clear: nothing is left that would send the change.)
C18_NoChangeLost ==
    TimerFired
        => /\ IsCall(issued, "update_climate_settings", "debounce")
           /\ issued[1].payload.temperature = target_temperature
           /\ issued[1].payload.defrost = Some(<<front_defrost[1], rear_defrost[1]>>)

\* C20: when an engine-start that no engine-stop has followed is answered
\* with success and leaves no operation in flight, the mode is not OFF (the
\* last successful command is then engine-start).
C20_OffMeansEngineStartNotLast ==
    [][(/\ EngineStartReturned'
        /\ ev'.res \in {"status=1", "no status attribute"}
        /\ ~stop_after_start
        /\ InFlight' = 0
        /\ update_pc' = "idle")
           => hvac_mode' # OFF]_vars

====
